---- MODULE Spec2Model ----
(***************************************************************************)
(* A model of src/src/main.rs: the SDL2/GStreamer player's main loop, its  *)
(* key handlers, and the pure function calculate_display_rect.             *)
(*                                                                         *)
(* Floating point is modelled bit-exactly with integers:                   *)
(*   - an f32 is a record [k, m, e]: k is "zero", "fin", "inf" or "nan",   *)
(*     and a finite value is m * 2^e with 2^23 <= m < 2^24 (all values     *)
(*     here are non-negative and far from the subnormal range);            *)
(*   - the f64 volume is a pair of 28-bit limbs counting units of 2^-56.   *)
(***************************************************************************)
EXTENDS Integers, Sequences, FiniteSets, TLC

\* ------------------------------------------------------------------ bounds

\* video dimensions 0..MaxDim are enumerated, next to the ones in ExtraDims
MaxDim == 16
\* the frame counter is stopped from growing past MaxFrames
MaxFrames == 2
\* one drain of the bus sees at most MaxBus messages
MaxBus == 2
\* stream positions a position query can report: 0..MaxPos
MaxPos == 1

\* --------------------------------------------------------------- constants

WINDOW_WIDTH == 800
WINDOW_HEIGHT == 600

\* `x as u32` saturates at u32::MAX; that value is only ever compared with a
\* window bound, and is represented by the largest integer TLC holds.
U32_MAX == 2147483647

\* ------------------------------------------------------------ f32 numbers

RECURSIVE Pow2(_)
Pow2(n) == IF n = 0 THEN 1 ELSE 2 * Pow2(n - 1)

F32Zero == [k |-> "zero", m |-> 0, e |-> 0]
F32Inf == [k |-> "inf", m |-> 0, e |-> 0]
F32NaN == [k |-> "nan", m |-> 0, e |-> 0]

RECURSIVE Normalize(_, _)
\* the finite f32 m * 2^e for 0 < m < 2^24
Normalize(m, e) ==
    IF m >= 8388608 THEN [k |-> "fin", m |-> m, e |-> e]
    ELSE Normalize(2 * m, e - 1)

\* `n as f32` for a u32 below 2^24 (exact)
F32FromU32(n) == IF n = 0 THEN F32Zero ELSE Normalize(n, 0)

\* round to nearest, ties to even: mantissa q (24 bits) with the discarded
\* part rem out of unit (rem < unit)
RoundNearestEven(q, rem, unit, e) ==
    LET up == (2 * rem > unit) \/ (2 * rem = unit /\ q % 2 = 1)
        q1 == IF up THEN q + 1 ELSE q
    IN IF q1 = 16777216 THEN [k |-> "fin", m |-> 8388608, e |-> e + 1]
       ELSE [k |-> "fin", m |-> q1, e |-> e]

RECURSIVE LongDiv(_, _, _, _)
\* n more quotient bits of r / d (r < d), appended to q: <<quotient, remainder>>
LongDiv(q, r, d, n) ==
    IF n = 0 THEN <<q, r>>
    ELSE IF 2 * r >= d THEN LongDiv(2 * q + 1, 2 * r - d, d, n - 1)
    ELSE LongDiv(2 * q, 2 * r, d, n - 1)

\* a / b in f32
F32Div(a, b) ==
    CASE a.k = "nan" \/ b.k = "nan" -> F32NaN
      [] a.k = "zero" /\ b.k = "zero" -> F32NaN
      [] a.k = "inf" /\ b.k = "inf" -> F32NaN
      [] a.k = "inf" -> F32Inf
      [] b.k = "inf" -> F32Zero
      [] b.k = "zero" -> F32Inf
      [] a.k = "zero" -> F32Zero
      [] OTHER ->
            IF a.m >= b.m
            THEN LET qr == LongDiv(1, a.m - b.m, b.m, 23)
                 IN RoundNearestEven(qr[1], qr[2], b.m, a.e - b.e - 23)
            ELSE LET qr == LongDiv(0, a.m, b.m, 24)
                 IN RoundNearestEven(qr[1], qr[2], b.m, a.e - b.e - 24)

\* a * b in f32: the 48-bit product of the mantissas, in halves of 12 bits
F32Mul(a, b) ==
    CASE a.k = "nan" \/ b.k = "nan" -> F32NaN
      [] a.k = "inf" /\ b.k = "zero" -> F32NaN
      [] a.k = "zero" /\ b.k = "inf" -> F32NaN
      [] a.k = "inf" \/ b.k = "inf" -> F32Inf
      [] a.k = "zero" \/ b.k = "zero" -> F32Zero
      [] OTHER ->
            LET a1 == a.m \div 4096
                a0 == a.m % 4096
                b1 == b.m \div 4096
                b0 == b.m % 4096
                mid == a1 * b0 + a0 * b1
                t == (mid % 4096) * 4096 + a0 * b0
                lo == t % 16777216
                hi == a1 * b1 + (mid \div 4096) + (t \div 16777216)
            IN IF hi >= 8388608
               THEN RoundNearestEven(hi, lo, 16777216, a.e + b.e + 24)
               ELSE RoundNearestEven(2 * hi + (lo \div 8388608), lo % 8388608,
                                     8388608, a.e + b.e + 23)

\* a > b in f32 (false when either is NaN)
F32Gt(a, b) ==
    CASE a.k = "nan" \/ b.k = "nan" -> FALSE
      [] a.k = "zero" -> FALSE
      [] b.k = "inf" -> FALSE
      [] a.k = "inf" -> TRUE
      [] b.k = "zero" -> TRUE
      [] OTHER -> (a.e > b.e) \/ (a.e = b.e /\ a.m > b.m)

\* `a.ceil() as u32`: NaN gives 0, too large a value saturates
CeilAsU32(a) ==
    CASE a.k = "nan" -> 0
      [] a.k = "zero" -> 0
      [] a.k = "inf" -> U32_MAX
      [] OTHER ->
            IF a.e >= 8 THEN U32_MAX
            ELSE IF a.e >= 0 THEN a.m * Pow2(a.e)
            ELSE IF a.e <= -24 THEN 1
            ELSE LET d == Pow2(-a.e)
                 IN (a.m + d - 1) \div d

\* --------------------------------------------------- calculate_display_rect

WINDOW_ASPECT_RATIO == F32Div(F32FromU32(WINDOW_WIDTH), F32FromU32(WINDOW_HEIGHT))

safe_div(a, b) == IF b = 0 THEN 0 ELSE a \div b

safe_sub(a, b) == IF b > a THEN 0 ELSE a - b

\* the arguments handed to Rect::new (x and y are cast from u32, so they are
\* never negative)
Rect(x, y, w, h) == [x |-> x, y |-> y, w |-> w, h |-> h]

\* WidthBased with the top edge put at the window's middle line: the height
\* of the picture is not subtracted before halving
WidthBased_uncentred(video_aspect_ratio) ==
    LET w == WINDOW_WIDTH
        h0 == CeilAsU32(F32Div(F32FromU32(WINDOW_WIDTH), video_aspect_ratio))
        h == IF h0 > WINDOW_HEIGHT THEN WINDOW_HEIGHT ELSE h0
        x == 0
        y == safe_div(WINDOW_HEIGHT, 2)
    IN Rect(x, y, w, h)

\* the arm that takes the window's width and derives the height
WidthBased(video_aspect_ratio) ==
    LET w == WINDOW_WIDTH
        h0 == CeilAsU32(F32Div(F32FromU32(WINDOW_WIDTH), video_aspect_ratio))
        h == IF h0 > WINDOW_HEIGHT THEN WINDOW_HEIGHT ELSE h0
        x == 0
        y == safe_div(safe_sub(WINDOW_HEIGHT, h), 2)
    IN Rect(x, y, w, h)

\* the arm that takes the window's height and derives the width
HeightBased(video_aspect_ratio) ==
    LET h == WINDOW_HEIGHT
        w0 == CeilAsU32(F32Mul(F32FromU32(WINDOW_HEIGHT), video_aspect_ratio))
        w == IF w0 > WINDOW_WIDTH THEN WINDOW_WIDTH ELSE w0
        x == safe_div(safe_sub(WINDOW_WIDTH, w), 2)
        y == 0
    IN Rect(x, y, w, h)

FitRect(video_aspect_ratio) ==
    IF F32Gt(video_aspect_ratio, WINDOW_ASPECT_RATIO)
    THEN WidthBased(video_aspect_ratio)
    ELSE HeightBased(video_aspect_ratio)

FillRect(video_aspect_ratio) ==
    IF F32Gt(video_aspect_ratio, WINDOW_ASPECT_RATIO)
    THEN HeightBased(video_aspect_ratio)
    ELSE WidthBased(video_aspect_ratio)

calculate_display_rect(video_width, video_height, mode) ==
    LET video_aspect_ratio == F32Div(F32FromU32(video_width), F32FromU32(video_height))
    IN IF mode = "Fit" THEN FitRect(video_aspect_ratio)
       ELSE FillRect(video_aspect_ratio)

\* ------------------------------------------------------------ f64 volume

\* A non-negative f64 in [0, 2) that is a multiple of 2^-56 is hi * 2^28 + lo
\* units of 2^-56, lo < 2^28; neg marks a negative value.
F64(neg, hi, lo) == [neg |-> neg, hi |-> hi, lo |-> lo]

F64_ZERO == F64(FALSE, 0, 0)
F64_ONE == F64(FALSE, 268435456, 0)
\* the f64 literal 0.1 = 7205759403792794 * 2^-56
F64_TENTH == F64(FALSE, 26843545, 161061274)

RECURSIVE BitLen(_)
BitLen(n) == IF n = 0 THEN 0 ELSE 1 + BitLen(n \div 2)

\* a < b for non-negative magnitudes
MagLess(a, b) == (a.hi < b.hi) \/ (a.hi = b.hi /\ a.lo < b.lo)

\* round the magnitude hi * 2^28 + lo to 53 significant bits, ties to even
F64Round(neg, hi, lo) ==
    IF hi < 33554432 THEN F64(neg /\ (hi > 0 \/ lo > 0), hi, lo)
    ELSE LET q == Pow2(BitLen(hi) - 25)
             rem == lo % q
             keep == lo - rem
             up == (2 * rem > q) \/ (2 * rem = q /\ (lo \div q) % 2 = 1)
             lo1 == IF up THEN keep + q ELSE keep
         IN IF lo1 = 268435456 THEN F64(neg, hi + 1, 0) ELSE F64(neg, hi, lo1)

\* a + b for non-negative a and b
F64Add(a, b) ==
    LET lo == a.lo + b.lo
    IN F64Round(FALSE, a.hi + b.hi + (lo \div 268435456), lo % 268435456)

\* a - b for non-negative a and b
F64Sub(a, b) ==
    LET big == IF MagLess(a, b) THEN b ELSE a
        small == IF MagLess(a, b) THEN a ELSE b
        borrow == IF big.lo < small.lo THEN 1 ELSE 0
    IN F64Round(MagLess(a, b), big.hi - small.hi - borrow,
                big.lo + borrow * 268435456 - small.lo)

\* a < b for signed values
F64Less(a, b) ==
    CASE a.neg /\ ~b.neg -> TRUE
      [] ~a.neg /\ b.neg -> FALSE
      [] a.neg /\ b.neg -> MagLess(b, a)
      [] OTHER -> MagLess(a, b)

\* v.clamp(min, max)
F64Clamp(v, min, max) ==
    IF F64Less(v, min) THEN min ELSE IF F64Less(max, v) THEN max ELSE v

\* volume_up without the clamp
volume_up_unclamped(v) == F64Add(v, F64_TENTH)

\* the PageUp arm: (v + 0.1).clamp(0.0, 1.0)
volume_up(v) == F64Clamp(F64Add(v, F64_TENTH), F64_ZERO, F64_ONE)

\* the PageDown arm: (v - 0.1).clamp(0.0, 1.0)
volume_down(v) == F64Clamp(F64Sub(v, F64_TENTH), F64_ZERO, F64_ONE)

\* the M arm
mute_volume == F64_ZERO

\* ------------------------------------------------------------ PlaybackSpeed

PlaybackSpeeds == {"Half", "Normal", "Fast", "Double"}

\* the rate as a fraction <<numerator, denominator>>
get_rate(speed) ==
    CASE speed = "Half" -> <<1, 2>>
      [] speed = "Normal" -> <<1, 1>>
      [] speed = "Fast" -> <<3, 2>>
      [] speed = "Double" -> <<2, 1>>

\* next with the wrap-around from Double going to Normal
next_skips_half(speed) ==
    CASE speed = "Half" -> "Normal"
      [] speed = "Normal" -> "Fast"
      [] speed = "Fast" -> "Double"
      [] speed = "Double" -> "Normal"

next(speed) ==
    CASE speed = "Half" -> "Normal"
      [] speed = "Normal" -> "Fast"
      [] speed = "Fast" -> "Double"
      [] speed = "Double" -> "Half"

\* ------------------------------------------------------------------- state

VARIABLES
    pc,              \* where main() is: "bus", "events", "frame", "teardown",
                     \* "done", "panicked" ("calc", "calc_done" under SpecCalc)
    playing,         \* PlaybackState: TRUE is Playing
    playback_speed,
    scale_mode,
    frames,          \* frames presented since the FPS timer was reset
    width, height,   \* last-known video dimensions
    tex,             \* the streaming texture's dimensions
    target_rect,     \* the rectangle computed for the frame of this tick
    fullscreen,      \* the window's fullscreen state
    pipeline_state,  \* the state the pipeline last accepted
    volume,          \* the "volume" property of the volume element
    last,            \* the input event handled last in this tick, and what it did
    render,          \* what the frame step of this tick did
    cause,           \* why the loop was left
    teardown,        \* the outcome of the final set_state(Null)
    exit_code        \* -1 while the process runs

vars == <<pc, playing, playback_speed, scale_mode, frames, width, height, tex,
          target_rect, fullscreen, pipeline_state, volume, last, render, cause,
          teardown, exit_code>>

ExtraDims == {600, 800, 1080, 1920}
Dims == (0 .. MaxDim) \cup ExtraDims
ScaleModes == {"Fit", "Fill"}
NoRect == Rect(-1, -1, -1, -1)

\* what pipeline.query_position returns: <<>> is None, <<p>> is Some(p)
QueryResults == {<<>>} \cup {<<p>> : p \in 0 .. MaxPos}

\* the dimensions the frames of the stream can have
FrameSizes == {[w |-> 800, h |-> 600], [w |-> 1920, h |-> 1080], [w |-> 0, h |-> 1080]}

BusMessages == {"Eos", "Error", "Other"}
BusBatches == UNION {[1 .. n -> BusMessages] : n \in 0 .. MaxBus}

\* a command sent to the pipeline, and whether the pipeline accepted it
SetState(state, ok) ==
    [cmd |-> "set_state", state |-> state, rate |-> <<0, 1>>, pos |-> -1,
     flags |-> {}, ok |-> ok]
Seek(rate, position, ok) ==
    [cmd |-> "seek", state |-> "", rate |-> rate, pos |-> position,
     flags |-> {"FLUSH", "ACCURATE"}, ok |-> ok]

NoLast ==
    [ev |-> "none", was_playing |-> TRUE, speed_before |-> "Normal",
     state_before |-> "Playing", vol_before |-> F64_ZERO, query |-> <<>>,
     issued |-> <<>>]

\* the record of the handler of event ev, run in the current state
Handled(ev, query, issued) ==
    [ev |-> ev, was_playing |-> playing, speed_before |-> playback_speed,
     state_before |-> pipeline_state, vol_before |-> volume, query |-> query,
     issued |-> issued]

\* count is the frame counter after the match on the pulled sample and before
\* the FPS update, -1 when the tick did not get there
NoRender ==
    [pull |-> "none", fw |-> -1, fh |-> -1, tex_w |-> -1, tex_h |-> -1,
     recreated |-> FALSE, presented |-> FALSE, count |-> -1]

\* the exit code of a process whose main() panicked
PANIC_EXIT == 101

\* what main() has set up before the loop, apart from the fields an
\* initial condition below varies
Constructed ==
    /\ playing = TRUE
    /\ playback_speed = "Normal"
    /\ frames = 0
    /\ tex = [w |-> WINDOW_WIDTH, h |-> WINDOW_HEIGHT]
    /\ target_rect = NoRect
    /\ fullscreen = "Off"
    /\ pipeline_state = "Playing"
    /\ last = NoLast
    /\ render = NoRender
    /\ cause = "running"
    /\ teardown = "none"
    /\ exit_code = -1

\* the state when the loop is entered: the pipeline was set to Playing, and
\* the volume element of the pipeline description has its default gain 1.0
Init ==
    /\ pc = "bus"
    /\ scale_mode = "Fit"
    /\ width = WINDOW_WIDTH
    /\ height = WINDOW_HEIGHT
    /\ volume = F64_ONE
    /\ Constructed

\* ----------------------------------------------------------- the main loop

Running == pc \in {"bus", "events", "frame"}

\* .expect()/.unwrap() on an Err: main() unwinds, nothing after it runs
Panic ==
    /\ pc' = "panicked"
    /\ exit_code' = PANIC_EXIT
    /\ cause' = IF Running THEN "panic" ELSE cause

RECURSIVE FirstTerminal(_)
\* the first Eos or Error of the messages bus.iter() yields, "none" without one
FirstTerminal(msgs) ==
    IF msgs = <<>> THEN "none"
    ELSE IF Head(msgs) \in {"Eos", "Error"} THEN Head(msgs)
    ELSE FirstTerminal(Tail(msgs))

\* BusDrain with a break that leaves only the for loop: the Eos or Error is
\* noted and the tick goes on with the input events
BusDrain_inner_break ==
    /\ pc = "bus"
    /\ \E msgs \in BusBatches :
         LET t == FirstTerminal(msgs)
         IN /\ pc' = "events"
            /\ cause' = CASE t = "Eos" -> "bus_eos"
                          [] t = "Error" -> "bus_error"
                          [] OTHER -> cause
    /\ last' = NoLast
    /\ render' = NoRender
    /\ target_rect' = NoRect
    /\ UNCHANGED <<playing, playback_speed, scale_mode, frames, width, height, tex,
                   fullscreen, pipeline_state, volume, teardown, exit_code>>

\* the for loop over bus.iter()
BusDrain ==
    /\ pc = "bus"
    /\ \E msgs \in BusBatches :
         LET t == FirstTerminal(msgs)
         IN /\ pc' = IF t = "none" THEN "events" ELSE "teardown"
            /\ cause' = CASE t = "Eos" -> "bus_eos"
                          [] t = "Error" -> "bus_error"
                          [] OTHER -> cause
    /\ last' = NoLast
    /\ render' = NoRender
    /\ target_rect' = NoRect
    /\ UNCHANGED <<playing, playback_speed, scale_mode, frames, width, height, tex,
                   fullscreen, pipeline_state, volume, teardown, exit_code>>

\* the commands a handler issued: main() panics at the first set_state the
\* pipeline rejects, and the pipeline is in the state it accepted last
Rejected(issued) ==
    \E i \in 1 .. Len(issued) : issued[i].cmd = "set_state" /\ ~issued[i].ok

RECURSIVE StateAfter(_, _)
StateAfter(state, issued) ==
    IF issued = <<>> THEN state
    ELSE LET c == Head(issued)
         IN StateAfter(IF c.cmd = "set_state" /\ c.ok THEN c.state ELSE state,
                       Tail(issued))

\* the rest of a handler that has issued these commands
Issue(issued) ==
    /\ pipeline_state' = StateAfter(pipeline_state, issued)
    /\ IF Rejected(issued) THEN Panic
       ELSE UNCHANGED <<pc, exit_code, cause>>

\* Event::Quit, Q or Escape
HandleQuit ==
    /\ pc = "events"
    /\ pc' = "teardown"
    /\ cause' = "quit"
    /\ last' = Handled("Quit", <<>>, <<>>)
    /\ UNCHANGED <<playing, playback_speed, scale_mode, frames, width, height, tex,
                   target_rect, fullscreen, pipeline_state, volume, render,
                   teardown, exit_code>>

toggle_scale_mode(mode) == IF mode = "Fit" THEN "Fill" ELSE "Fit"

\* Keycode::R
HandleR ==
    /\ pc = "events"
    /\ scale_mode' = toggle_scale_mode(scale_mode)
    /\ last' = Handled("R", <<>>, <<>>)
    /\ UNCHANGED <<pc, playing, playback_speed, frames, width, height, tex,
                   target_rect, fullscreen, pipeline_state, volume, render, cause,
                   teardown, exit_code>>

\* HandleM as a toggle: a mute at volume 0.0 turns the sound back on
HandleM_toggles ==
    /\ pc = "events"
    /\ volume' = IF volume = F64_ZERO THEN F64_ONE ELSE mute_volume
    /\ last' = Handled("M", <<>>, <<>>)
    /\ UNCHANGED <<pc, playing, playback_speed, scale_mode, frames, width, height,
                   tex, target_rect, fullscreen, pipeline_state, render, cause,
                   teardown, exit_code>>

\* Keycode::M
HandleM ==
    /\ pc = "events"
    /\ volume' = mute_volume
    /\ last' = Handled("M", <<>>, <<>>)
    /\ UNCHANGED <<pc, playing, playback_speed, scale_mode, frames, width, height,
                   tex, target_rect, fullscreen, pipeline_state, render, cause,
                   teardown, exit_code>>

\* Keycode::PageUp
HandlePageUp ==
    /\ pc = "events"
    /\ volume' = volume_up(volume)
    /\ last' = Handled("PageUp", <<>>, <<>>)
    /\ UNCHANGED <<pc, playing, playback_speed, scale_mode, frames, width, height,
                   tex, target_rect, fullscreen, pipeline_state, render, cause,
                   teardown, exit_code>>

\* Keycode::PageDown
HandlePageDown ==
    /\ pc = "events"
    /\ volume' = volume_down(volume)
    /\ last' = Handled("PageDown", <<>>, <<>>)
    /\ UNCHANGED <<pc, playing, playback_speed, scale_mode, frames, width, height,
                   tex, target_rect, fullscreen, pipeline_state, render, cause,
                   teardown, exit_code>>

toggle_fullscreen(state) == IF state \in {"True", "Desktop"} THEN "Off" ELSE "True"

\* Keycode::F: set_fullscreen(..).unwrap()
HandleF ==
    /\ pc = "events"
    /\ last' = Handled("F", <<>>, <<>>)
    /\ \E ok \in BOOLEAN :
         IF ok
         THEN /\ fullscreen' = toggle_fullscreen(fullscreen)
              /\ UNCHANGED <<pc, exit_code, cause>>
         ELSE /\ Panic
              /\ UNCHANGED fullscreen
    /\ UNCHANGED <<playing, playback_speed, scale_mode, frames, width, height, tex,
                   target_rect, pipeline_state, volume, render, teardown>>

\* the command of the play/pause toggle
toggle_command(is_playing, ok) ==
    IF is_playing THEN <<SetState("Paused", ok)>> ELSE <<SetState("Playing", ok)>>

\* Keycode::Space
HandleSpace ==
    /\ pc = "events"
    /\ playing' = ~playing
    /\ \E ok \in BOOLEAN :
         LET issued == toggle_command(playing, ok)
         IN /\ last' = Handled("Space", <<>>, issued)
            /\ Issue(issued)
    /\ UNCHANGED <<playback_speed, scale_mode, frames, width, height, tex,
                   target_rect, fullscreen, volume, render, teardown>>

\* cycle_speed_commands with playback resumed before the seek is sent
cycle_speed_resume_first(query, rate, is_playing, ok_pause, ok_seek, ok_resume) ==
    IF query = <<>> THEN <<>>
    ELSE IF ~ok_pause THEN <<SetState("Paused", FALSE)>>
    ELSE <<SetState("Paused", TRUE)>>
         \o (IF is_playing THEN <<SetState("Playing", ok_resume)>> ELSE <<>>)
         \o (IF is_playing /\ ~ok_resume THEN <<>>
             ELSE <<Seek(rate, query[1], ok_seek)>>)

\* cycle_speed_commands resuming after the seek whether or not PlaybackState
\* was Playing
cycle_speed_always_resumes(query, rate, is_playing, ok_pause, ok_seek, ok_resume) ==
    IF query = <<>> THEN <<>>
    ELSE IF ~ok_pause THEN <<SetState("Paused", FALSE)>>
    ELSE <<SetState("Paused", TRUE), Seek(rate, query[1], ok_seek),
           SetState("Playing", ok_resume)>>

\* the commands of the cycle-speed handler: query is what query_position
\* returned, and ok_pause, ok_seek, ok_resume are the pipeline's answers
cycle_speed_commands(query, rate, is_playing, ok_pause, ok_seek, ok_resume) ==
    IF query = <<>> THEN <<>>
    ELSE IF ~ok_pause THEN <<SetState("Paused", FALSE)>>
    ELSE <<SetState("Paused", TRUE), Seek(rate, query[1], ok_seek)>>
         \o (IF is_playing THEN <<SetState("Playing", ok_resume)>> ELSE <<>>)

\* Keycode::S
HandleS ==
    /\ pc = "events"
    /\ \E query \in QueryResults, ok_pause \in BOOLEAN, ok_seek \in BOOLEAN,
          ok_resume \in BOOLEAN :
         LET speed == next(playback_speed)
             issued == cycle_speed_commands(query, get_rate(speed), playing,
                                            ok_pause, ok_seek, ok_resume)
         IN /\ playback_speed' = speed
            /\ last' = Handled("S", query, issued)
            /\ Issue(issued)
    /\ UNCHANGED <<playing, scale_mode, frames, width, height, tex, target_rect,
                   fullscreen, volume, render, teardown>>

\* any other event
HandleOther ==
    /\ pc = "events"
    /\ last' = Handled("Other", <<>>, <<>>)
    /\ UNCHANGED <<pc, playing, playback_speed, scale_mode, frames, width, height,
                   tex, target_rect, fullscreen, pipeline_state, volume, render,
                   cause, teardown, exit_code>>

\* poll_iter() has no more events
EventsDone ==
    /\ pc = "events"
    /\ pc' = "frame"
    /\ last' = NoLast
    /\ UNCHANGED <<playing, playback_speed, scale_mode, frames, width, height, tex,
                   target_rect, fullscreen, pipeline_state, volume, render, cause,
                   teardown, exit_code>>

\* the frame step without the paused check: a paused tick pulls and presents
\* a frame of the last-known size
PausedSkip_pulls ==
    /\ pc = "frame"
    /\ ~playing
    /\ frames < MaxFrames
    /\ pc' = "bus"
    /\ frames' = frames + 1
    /\ render' = [pull |-> "frame", fw |-> width, fh |-> height, tex_w |-> tex.w,
                  tex_h |-> tex.h, recreated |-> FALSE, presented |-> TRUE,
                  count |-> frames + 1]
    /\ UNCHANGED <<playing, playback_speed, scale_mode, width, height, tex,
                   target_rect, fullscreen, pipeline_state, volume, last, cause,
                   teardown, exit_code>>

\* if !playing { continue 'running; }
PausedSkip ==
    /\ pc = "frame"
    /\ ~playing
    /\ pc' = "bus"
    /\ render' = [NoRender EXCEPT !.pull = "skipped"]
    /\ UNCHANGED <<playing, playback_speed, scale_mode, frames, width, height, tex,
                   target_rect, fullscreen, pipeline_state, volume, last, cause,
                   teardown, exit_code>>

\* the FPS update: once a second has passed the counter is reset
fps_update(count, elapsed) == IF elapsed THEN 0 ELSE count

\* the comparison that only looks at the height
dimensions_changed_height_only(f, w, h) == f.h # h

\* if width != info.width() || height != info.height()
dimensions_changed(f, w, h) == f.w # w \/ f.h # h

\* try_pull_sample returned Some(sample) with a frame of size f
PullFrame ==
    /\ pc = "frame"
    /\ playing
    /\ frames < MaxFrames
    /\ \E f \in FrameSizes, tex_ok \in BOOLEAN, elapsed \in BOOLEAN :
         LET changed == dimensions_changed(f, width, height)
             shown == f.w > 0 /\ f.h > 0
             count == IF shown THEN frames + 1 ELSE frames
         IN /\ width' = f.w
            /\ height' = f.h
            /\ IF changed /\ ~tex_ok
               THEN /\ Panic
                    /\ render' = [NoRender EXCEPT !.pull = "frame", !.fw = f.w,
                                                  !.fh = f.h]
                    /\ UNCHANGED <<tex, target_rect, frames>>
               ELSE /\ tex' = IF changed THEN [w |-> f.w, h |-> f.h] ELSE tex
                    /\ target_rect' = IF shown
                                      THEN calculate_display_rect(f.w, f.h, scale_mode)
                                      ELSE target_rect
                    /\ render' = [pull |-> "frame", fw |-> f.w, fh |-> f.h,
                                  tex_w |-> IF shown THEN tex'.w ELSE -1,
                                  tex_h |-> IF shown THEN tex'.h ELSE -1,
                                  recreated |-> changed, presented |-> shown,
                                  count |-> count]
                    /\ frames' = fps_update(count, elapsed)
                    /\ pc' = "bus"
                    /\ UNCHANGED <<exit_code, cause>>
    /\ UNCHANGED <<playing, playback_speed, scale_mode, fullscreen, pipeline_state,
                   volume, last, teardown>>

\* PullNothing leaving the loop on every None, end-of-stream or not
PullNothing_always_exits ==
    /\ pc = "frame"
    /\ playing
    /\ \E is_eos \in BOOLEAN :
         /\ pc' = "teardown"
         /\ cause' = "appsink_eos"
         /\ render' = [NoRender EXCEPT !.pull = IF is_eos THEN "eos" ELSE "nothing",
                                       !.count = IF is_eos THEN -1 ELSE frames]
    /\ UNCHANGED <<playing, playback_speed, scale_mode, frames, width, height, tex,
                   target_rect, fullscreen, pipeline_state, volume, last, teardown,
                   exit_code>>

\* try_pull_sample returned None
PullNothing ==
    /\ pc = "frame"
    /\ playing
    /\ \E is_eos \in BOOLEAN, elapsed \in BOOLEAN :
         IF is_eos
         THEN /\ pc' = "teardown"
              /\ cause' = "appsink_eos"
              /\ render' = [NoRender EXCEPT !.pull = "eos"]
              /\ UNCHANGED frames
         ELSE /\ pc' = "bus"
              /\ render' = [NoRender EXCEPT !.pull = "nothing", !.count = frames]
              /\ frames' = fps_update(frames, elapsed)
              /\ UNCHANGED cause
    /\ UNCHANGED <<playing, playback_speed, scale_mode, width, height, tex,
                   target_rect, fullscreen, pipeline_state, volume, last, teardown,
                   exit_code>>

\* after the loop: set_state(Null).expect(..), then main() returns
Teardown ==
    /\ pc = "teardown"
    /\ \E ok \in BOOLEAN :
         /\ teardown' = IF ok THEN "ok" ELSE "rejected"
         /\ pipeline_state' = IF ok THEN "Null" ELSE pipeline_state
         /\ IF ok
            THEN /\ pc' = "done"
                 /\ exit_code' = 0
                 /\ UNCHANGED cause
            ELSE Panic
    /\ UNCHANGED <<playing, playback_speed, scale_mode, frames, width, height, tex,
                   target_rect, fullscreen, volume, last, render>>

Next ==
    \/ BusDrain
    \/ HandleQuit
    \/ HandleR
    \/ HandleM
    \/ HandlePageUp
    \/ HandlePageDown
    \/ HandleF
    \/ HandleSpace
    \/ HandleS
    \/ HandleOther
    \/ EventsDone
    \/ PausedSkip
    \/ PullFrame
    \/ PullNothing
    \/ Teardown

Spec == Init /\ [][Next]_vars

\* ------------------------------------- calculate_display_rect on its own

\* every call calculate_display_rect(width, height, scale_mode)
CalcInit ==
    /\ pc = "calc"
    /\ scale_mode \in ScaleModes
    /\ width \in Dims
    /\ height \in Dims
    /\ volume = F64_ONE
    /\ Constructed

Calculate ==
    /\ pc = "calc"
    /\ pc' = "calc_done"
    /\ target_rect' = calculate_display_rect(width, height, scale_mode)
    /\ UNCHANGED <<playing, playback_speed, scale_mode, frames, width, height, tex,
                   fullscreen, pipeline_state, volume, last, render, cause,
                   teardown, exit_code>>

CalcNext == Calculate

SpecCalc == CalcInit /\ [][CalcNext]_vars

\* ------------------------------------------- the volume keys on their own

\* the volumes k/16, k = 0 .. 16
StartVolumes == {F64(FALSE, k * 16777216, 0) : k \in 0 .. 16}

\* the event loop with the volume element at any of the start volumes
VolumeInit ==
    /\ pc = "events"
    /\ scale_mode = "Fit"
    /\ width = WINDOW_WIDTH
    /\ height = WINDOW_HEIGHT
    /\ volume \in StartVolumes
    /\ Constructed

VolumeNext ==
    \/ HandleM
    \/ HandlePageUp
    \/ HandlePageDown

SpecVolume == VolumeInit /\ [][VolumeNext]_vars

\* ------------------------------------------------------------------ claims

\* a command without the pipeline's answer
Command(c) ==
    [cmd |-> c.cmd, state |-> c.state, rate |-> c.rate, pos |-> c.pos,
     flags |-> c.flags]
Commands(issued) == [i \in 1 .. Len(issued) |-> Command(issued[i])]

PauseCommand == Command(SetState("Paused", TRUE))
PlayCommand == Command(SetState("Playing", TRUE))

\* pause, seek to the queried position at the rate of the speed now tracked,
\* resume iff PlaybackState was Playing when the command arrived
CycleSequence ==
    <<PauseCommand, Command(Seek(get_rate(playback_speed), last.query[1], TRUE))>>
    \o (IF last.was_playing THEN <<PlayCommand>> ELSE <<>>)

CycleSpeedQueried == last.ev = "S" /\ last.query # <<>>

\* C1, as stated: every cycle-speed command whose position query succeeds
\* issues set Paused, one flushing accurate seek to the queried position at
\* the new rate, then set Playing iff PlaybackState was Playing; the pipeline
\* is left Paused when PlaybackState was Paused.
C1_Original ==
    CycleSpeedQueried =>
        /\ Commands(last.issued) = CycleSequence
        /\ (~last.was_playing => pipeline_state = "Paused")

\* C1, amended: the first command of such a cycle-speed command is always
\* set Paused. If the pipeline accepts it, the commands issued are exactly
\* pause, seek (flushing, accurate, queried position, new rate), then set
\* Playing iff PlaybackState was Playing, and with PlaybackState Paused the
\* pipeline is left Paused. If the pipeline rejects the pause, the handler
\* stops there: no seek and no set Playing is issued.
C1_CycleSpeedOrder ==
    CycleSpeedQueried =>
        /\ last.issued # <<>>
        /\ Command(last.issued[1]) = PauseCommand
        /\ IF last.issued[1].ok
           THEN /\ Commands(last.issued) = CycleSequence
                /\ last.issued[2].flags = {"FLUSH", "ACCURATE"}
                /\ (~last.was_playing => pipeline_state = "Paused")
           ELSE /\ Len(last.issued) = 1
                /\ pc = "panicked"

\* C1's case: a cycle-speed command while Playing ran pause, seek and resume,
\* and the loop goes on
C1_Witness ==
    /\ CycleSpeedQueried
    /\ last.was_playing
    /\ Len(last.issued) = 3
    /\ pc = "events"
    /\ pipeline_state = "Playing"

\* C2, as stated: when the position query of a cycle-speed command fails, no
\* command is issued and PlaybackState, the tracked PlaybackSpeed and the
\* pipeline's commanded state are what they were before the command.
C2_Original ==
    (last.ev = "S" /\ last.query = <<>>) =>
        /\ last.issued = <<>>
        /\ playing = last.was_playing
        /\ playback_speed = last.speed_before
        /\ pipeline_state = last.state_before

\* the process has ended for one of the reasons the loop is left for: a
\* terminal bus message, a quit, an exhausted appsink, or a pipeline command
\* that failed inside the loop
EndedAfterLoopExit ==
    /\ pc \in {"done", "panicked"}
    /\ \/ cause \in {"bus_eos", "bus_error", "quit", "appsink_eos"}
       \/ cause = "panic" /\ Rejected(last.issued)

\* C3, as stated: whenever the process has ended after leaving the loop for
\* any of these reasons, the transition of the pipeline to Null was commanded
\* before.
C3_Original == EndedAfterLoopExit => teardown # "none"

\* C4, as stated: once the bus has delivered an Error message, no event is
\* dispatched and no frame is pulled or presented in that tick, and when the
\* process has ended the pipeline is in Null and the exit code is 0.
C4_Original ==
    cause = "bus_error" =>
        /\ pc \in {"teardown", "done", "panicked"}
        /\ last = NoLast
        /\ render = NoRender
        /\ (pc \in {"done", "panicked"} =>
                /\ pipeline_state = "Null"
                /\ exit_code = 0)

\* C5, as stated: when the pipeline rejects a state transition issued by the
\* play/pause toggle or by cycle-speed, the loop is left, and the process
\* does not end before the transition to Null was commanded.
C5_Original ==
    (last.ev \in {"Space", "S"} /\ Rejected(last.issued)) =>
        /\ ~Running
        /\ (pc \in {"done", "panicked"} => teardown # "none")

CalcDone == pc = "calc_done"

\* C6: for positive video dimensions the Fit rectangle lies inside the
\* 800x600 window, and its width is the window's width or its height is the
\* window's height.
C6_FitInsideWindow ==
    (CalcDone /\ scale_mode = "Fit" /\ width > 0 /\ height > 0) =>
        /\ target_rect.x >= 0
        /\ target_rect.y >= 0
        /\ target_rect.w > 0
        /\ target_rect.h > 0
        /\ target_rect.x + target_rect.w <= WINDOW_WIDTH
        /\ target_rect.y + target_rect.h <= WINDOW_HEIGHT
        /\ (target_rect.w = WINDOW_WIDTH \/ target_rect.h = WINDOW_HEIGHT)

\* C6's case: a 1920x1080 video is letterboxed to 800x450 at (0, 75)
C6_Witness ==
    /\ CalcDone
    /\ scale_mode = "Fit"
    /\ width = 1920
    /\ height = 1080
    /\ target_rect = Rect(0, 75, 800, 450)

\* the least integer that is at least a / b
CeilDiv(a, b) == (a + b - 1) \div b

Abs(n) == IF n < 0 THEN -n ELSE n

\* the video is wider than the window (exact arithmetic)
Wider == width * WINDOW_HEIGHT > height * WINDOW_WIDTH

\* the aspect-preserving size of the covering axis in Fill mode
FillScaled ==
    IF Wider THEN CeilDiv(WINDOW_HEIGHT * width, height)
    ELSE CeilDiv(WINDOW_WIDTH * height, width)

\* C7, as stated: for positive video dimensions the Fill rectangle covers
\* the window on the covering axis, equals the window bound on the other
\* axis, and is centred with offset (scaledDim - windowDim) div 2.
C7_Original ==
    (CalcDone /\ scale_mode = "Fill" /\ width > 0 /\ height > 0) =>
        IF Wider
        THEN /\ target_rect.w >= WINDOW_WIDTH
             /\ target_rect.h = WINDOW_HEIGHT
             /\ Abs(target_rect.x) = (FillScaled - WINDOW_WIDTH) \div 2
        ELSE /\ target_rect.h >= WINDOW_HEIGHT
             /\ target_rect.w = WINDOW_WIDTH
             /\ Abs(target_rect.y) = (FillScaled - WINDOW_HEIGHT) \div 2

\* C8, as stated: Fill does not clamp the overflowing axis: 1920x1080 gives
\* height 600, width 1067, y 0 and a negative x, and whenever the aspects
\* differ the rectangle extends beyond the window on one axis.
C8_Original ==
    (CalcDone /\ scale_mode = "Fill" /\ width > 0 /\ height > 0) =>
        /\ (width = 1920 /\ height = 1080 =>
                /\ target_rect.h = 600
                /\ target_rect.w = 1067
                /\ target_rect.y = 0
                /\ target_rect.x < 0)
        /\ (width * WINDOW_HEIGHT # height * WINDOW_WIDTH =>
                \/ target_rect.w > WINDOW_WIDTH
                \/ target_rect.h > WINDOW_HEIGHT)

\* C9, as stated: with video width 0 or video height 0, in either mode, the
\* call returns a rectangle of zero area with no negative coordinate.
C9_Original ==
    (CalcDone /\ (width = 0 \/ height = 0)) =>
        /\ target_rect # NoRect
        /\ (target_rect.w = 0 \/ target_rect.h = 0)
        /\ target_rect.x >= 0
        /\ target_rect.y >= 0

\* 0.0 <= v <= 1.0
VolumeInRange(v) ==
    /\ ~v.neg
    /\ (v.hi < 268435456 \/ (v.hi = 268435456 /\ v.lo = 0))

\* C10: after any sequence of volume-up, volume-down and mute commands the
\* volume is within [0, 1]; volume-up at 1.0 leaves 1.0 and volume-down at
\* 0.0 leaves 0.0.
C10_VolumeClamped ==
    /\ VolumeInRange(volume)
    /\ (last.ev = "PageUp" /\ last.vol_before = F64_ONE => volume = F64_ONE)
    /\ (last.ev = "PageDown" /\ last.vol_before = F64_ZERO => volume = F64_ZERO)

\* C10's case: a volume-up at 1.0 was handled
C10_Witness ==
    /\ last.ev = "PageUp"
    /\ last.vol_before = F64_ONE
    /\ volume = F64_ONE

\* C11: mute is idempotent and keeps no memory. Every mute leaves the volume
\* at 0.0, whatever it was before, so a mute after a mute does not unmute; the
\* command after a mute starts from 0.0 whatever the volume before the mute
\* was: volume-up yields 0.1, volume-down yields 0.0, and nothing restores
\* the volume of before the mute.
C11_MuteNoMemory ==
    [][/\ (last'.ev = "M" => volume' = F64_ZERO)
       /\ (last.ev = "M" /\ last'.ev = "PageUp" => volume' = F64_TENTH)
       /\ (last.ev = "M" /\ last'.ev = "PageDown" => volume' = F64_ZERO)]_vars

\* C11's case: a second mute in a row, handled at volume 0.0
C11_Witness ==
    /\ last.ev = "M"
    /\ last.vol_before = F64_ZERO
    /\ volume = F64_ZERO

\* C12: PlaybackSpeed.next() is total and cyclic, Half -> Normal -> Fast ->
\* Double -> Half, with the rates 0.5, 1.0, 1.5, 2.0. Every cycle-speed command
\* moves the tracked speed to its successor, so four commands in a row bring
\* it back to where it started and one, two or three never do.
C12_SpeedCycle ==
    /\ playback_speed \in PlaybackSpeeds
    /\ (last.ev = "S" => playback_speed = next(last.speed_before))
    /\ next(playback_speed) \in PlaybackSpeeds \ {playback_speed}
    /\ next(next(playback_speed)) \in PlaybackSpeeds \ {playback_speed}
    /\ next(next(next(playback_speed))) \in PlaybackSpeeds \ {playback_speed}
    /\ next(next(next(next(playback_speed)))) = playback_speed
    /\ <<next("Half"), next("Normal"), next("Fast"), next("Double")>>
         = <<"Normal", "Fast", "Double", "Half">>
    /\ <<get_rate("Half"), get_rate("Normal"), get_rate("Fast"), get_rate("Double")>>
         = <<(<<1, 2>>), (<<1, 1>>), (<<3, 2>>), (<<2, 1>>)>>

\* C12's case: a cycle-speed command at Double wrapped around to Half
C12_Witness ==
    /\ last.ev = "S"
    /\ last.speed_before = "Double"
    /\ playback_speed = "Half"

BusTerminal == {"bus_eos", "bus_error"}

\* C13: in every tick the bus is drained before any input event is
\* dispatched: the event phase is entered from the bus drain only, and a
\* handler runs only in the event phase of a loop that has not been left. A
\* bus Eos or Error leaves the loop from the bus drain, before the event
\* phase: from then on no handler runs, no frame is pulled, nothing of the
\* player's state changes, and the only pipeline command is the final
\* transition to Null.
C13_BusBeforeInput ==
    [][/\ (pc' = "events" /\ pc # "events" => pc = "bus")
       /\ (last' # last /\ last'.ev # "none" => pc = "events" /\ cause = "running")
       /\ (cause' \in BusTerminal /\ cause \notin BusTerminal =>
              pc = "bus" /\ pc' = "teardown" /\ last' = NoLast)
       /\ (cause \in BusTerminal =>
              /\ pc = "teardown"
              /\ pc' \in {"done", "panicked"}
              /\ last' = NoLast
              /\ render' = NoRender
              /\ pipeline_state' \in {pipeline_state, "Null"}
              /\ teardown' \in {"ok", "rejected"}
              /\ UNCHANGED <<playing, playback_speed, scale_mode, frames, width,
                             height, tex, fullscreen, volume, cause>>)]_vars

\* C13's case: the bus held an Error, the loop was left and the pipeline was
\* set to Null
C13_Witness ==
    /\ cause = "bus_error"
    /\ pc = "done"
    /\ pipeline_state = "Null"
    /\ last = NoLast

\* C14: while PlaybackState is Paused no tick pulls or presents a frame, and
\* the texture, the last-known dimensions and the frame counter do not
\* change: the frame step of a paused tick goes straight to the next tick.
\* The paused loop still drains the bus and dispatches input: a play/pause
\* toggle sets PlaybackState to Playing and commands the pipeline to play, a
\* quit leaves the loop, and so does a bus Eos or Error.
C14_PausedIdle ==
    /\ [](~playing /\ Running =>
            /\ render.pull \in {"none", "skipped"}
            /\ ~render.presented
            /\ (pc = "bus" => ENABLED BusDrain)
            /\ (pc = "events" =>
                   ENABLED HandleSpace /\ ENABLED HandleQuit /\ ENABLED EventsDone)
            /\ (pc = "frame" =>
                   ENABLED PausedSkip /\ ~ENABLED PullFrame /\ ~ENABLED PullNothing))
    /\ [][~playing /\ Running =>
            /\ UNCHANGED <<tex, width, height, frames>>
            /\ ~render'.presented
            /\ (pc = "frame" => pc' = "bus" /\ render'.pull = "skipped")
            /\ (pc = "bus" /\ cause' \in BusTerminal => pc' = "teardown")
            /\ (pc = "events" /\ last'.ev = "Quit" =>
                   pc' = "teardown" /\ cause' = "quit")
            /\ (pc = "events" /\ last'.ev = "Space" =>
                   /\ playing'
                   /\ Commands(last'.issued) = <<PlayCommand>>
                   /\ (last'.issued[1].ok =>
                          pipeline_state' = "Playing" /\ pc' = "events"))]_vars

\* C14's case: the frame step of a paused tick was skipped
C14_Witness ==
    /\ ~playing
    /\ pipeline_state = "Paused"
    /\ render.pull = "skipped"
    /\ pc = "bus"

\* the frame step of this tick got no frame
NoFramePulled == pc = "frame" /\ render'.pull \in {"nothing", "eos"}

\* C15, as stated: when the frame pull returns no frame and the appsink is at
\* end-of-stream the loop is left in that tick; otherwise nothing is
\* presented, the frame counter, the texture, the last-known dimensions,
\* PlaybackState and PlaybackSpeed are unchanged, and the next tick follows.
C15_Original ==
    [][NoFramePulled =>
         IF render'.pull = "eos"
         THEN pc' = "teardown" /\ cause' = "appsink_eos"
         ELSE /\ pc' = "bus"
              /\ cause' = "running"
              /\ ~render'.presented
              /\ UNCHANGED <<frames, tex, width, height, playing, playback_speed>>]_vars

\* C15, amended: as stated, except for the frame counter: the fallow tick does
\* not increment it, and the FPS update that ends the tick leaves it as it
\* was or, when a second has passed since the last reset, sets it to 0.
C15_FallowTick ==
    [][NoFramePulled =>
         IF render'.pull = "eos"
         THEN pc' = "teardown" /\ cause' = "appsink_eos"
         ELSE /\ pc' = "bus"
              /\ cause' = "running"
              /\ ~render'.presented
              /\ render'.count = frames
              /\ frames' \in {frames, 0}
              /\ UNCHANGED <<tex, width, height, playing, playback_speed>>]_vars

\* C15's case: a fallow tick after a presented frame, the counter still
\* counting it
C15_Witness ==
    /\ render.pull = "nothing"
    /\ pc = "bus"
    /\ frames > 0

\* the frame step of this tick pulled a frame
FramePulled == pc = "frame" /\ render'.pull = "frame"

\* C16: whenever the texture is written and presented its dimensions are
\* those of the frame pulled in that tick. A frame whose dimensions differ
\* from the last-known ones has the texture recreated at the frame's size
\* before anything is written (main() ends there if the texture cannot be
\* created), a frame of the last-known size leaves the texture alone; the
\* frame is presented exactly when both its dimensions are positive, and a
\* present increments the frame counter by exactly one.
C16_TextureMatchesFrame ==
    [][FramePulled =>
         LET r == render'
             differs == r.fw # width \/ r.fh # height
             alive == pc' # "panicked"
         IN /\ width' = r.fw
            /\ height' = r.fh
            /\ (differs /\ alive =>
                   r.recreated /\ tex' = [w |-> r.fw, h |-> r.fh])
            /\ (~alive => differs /\ ~r.presented /\ tex' = tex)
            /\ (~differs => ~r.recreated /\ tex' = tex)
            /\ (r.presented <=> r.fw > 0 /\ r.fh > 0 /\ alive)
            /\ (r.presented =>
                   /\ tex' = [w |-> r.fw, h |-> r.fh]
                   /\ r.tex_w = r.fw
                   /\ r.tex_h = r.fh
                   /\ r.count = frames + 1)
            /\ (~r.presented => r.count \in {frames, -1} /\ frames' \in {frames, 0})]_vars

\* C16's case: a 1920x1080 frame arrived at another last-known size, the
\* texture was recreated at 1920x1080 and the frame was presented
C16_Witness ==
    /\ render.pull = "frame"
    /\ render.recreated
    /\ render.presented
    /\ render.fw = 1920
    /\ tex = [w |-> 1920, h |-> 1080]

\* the cycle-speed command handled last sent a seek the pipeline rejected,
\* and the pipeline accepted every set_state of the handler
SeekRejected ==
    /\ last.ev = "S"
    /\ ~Rejected(last.issued)
    /\ \E i \in 1 .. Len(last.issued) :
         last.issued[i].cmd = "seek" /\ ~last.issued[i].ok

\* C17, as stated: when the pipeline rejects the seek of a cycle-speed
\* command the failure is unrecoverable: playback is not resumed, no command
\* follows the seek in the handler, and the loop is left for the teardown.
C17_Original ==
    SeekRejected =>
        /\ Commands(last.issued) = <<PauseCommand, Command(last.issued[2])>>
        /\ pc \in {"teardown", "done", "panicked"}

\* the Fit rectangle in exact arithmetic: the aspect-derived dimension rounded
\* up, clamped to the window, the slack split by integer division
ExactFit ==
    IF Wider
    THEN LET c == CeilDiv(WINDOW_WIDTH * height, width)
             h == IF c > WINDOW_HEIGHT THEN WINDOW_HEIGHT ELSE c
         IN Rect(0, (WINDOW_HEIGHT - h) \div 2, WINDOW_WIDTH, h)
    ELSE LET c == CeilDiv(WINDOW_HEIGHT * width, height)
             w == IF c > WINDOW_WIDTH THEN WINDOW_WIDTH ELSE c
         IN Rect((WINDOW_WIDTH - w) \div 2, 0, w, WINDOW_HEIGHT)

\* C18, as stated: for positive video dimensions Fit returns, for a video
\* wider than the window, w = 800, h = min(ceil(800 * videoH / videoW), 600),
\* x = 0, y = (600 - h) div 2, and symmetrically for a taller video;
\* 1920x1080 gives width 800, height 450, x 0, y 75.
C18_Original ==
    (CalcDone /\ scale_mode = "Fit" /\ width > 0 /\ height > 0) =>
        /\ target_rect = ExactFit
        /\ (width = 1920 /\ height = 1080 => target_rect = Rect(0, 75, 800, 450))

\* C19: while main() has not panicked on a rejected command, the tracked
\* PlaybackState agrees with the state the pipeline was last set to: playing
\* is true exactly when that state is Playing, after every handler and for
\* every interleaving of play/pause toggles and cycle-speed commands from
\* the initial Playing. PlaybackState changes in the play/pause toggle only;
\* every toggle flips it and issues exactly one command, pause when leaving
\* Playing and resume when leaving Paused.
C19_StateAgrees ==
    /\ [](Running =>
            /\ pipeline_state \in {"Playing", "Paused"}
            /\ (playing <=> pipeline_state = "Playing"))
    /\ [](last.ev = "Space" =>
            Commands(last.issued)
                = <<IF last.was_playing THEN PauseCommand ELSE PlayCommand>>)
    /\ [][/\ (playing' # playing => pc = "events" /\ last'.ev = "Space")
          /\ (pc = "events" /\ last'.ev = "Space" => playing' = ~playing)]_vars

\* C19's case: a cycle-speed command while Paused paused and sought without
\* resuming, and PlaybackState and the pipeline are both Paused
C19_Witness ==
    /\ last.ev = "S"
    /\ ~last.was_playing
    /\ Len(last.issued) = 2
    /\ pc = "events"
    /\ ~playing
    /\ pipeline_state = "Paused"

====
